---------------------------- MODULE Spec2Model ----------------------------
(***************************************************************************)
(* Model of sources/sdk/rust/src/models.rs: the SourceChange record, its   *)
(* constructor and set_reactivator_end_ns, and the three hand-written      *)
(* Serialize impls (SourceChange, Payload, SourceData) together with the   *)
(* derived ones (SourceElement, ChangeOp), as rendered by                  *)
(* serde_json::to_string and read back by serde_json::from_str::<Value>.   *)
(*                                                                         *)
(* Integers are kept at their real width.  TLC's integers are 32 bits, so  *)
(* a u64 is a little-endian sequence of 4 limbs and a u128 one of 8 limbs, *)
(* each limb in 0..65535.                                                  *)
(***************************************************************************)
EXTENDS Integers, Sequences, FiniteSets, TLC

(***************************************************************************)
(* Unsigned integers: u64 (seq) and u128 (the three timestamps).           *)
(***************************************************************************)
Base == 65536

U64Limbs == 4

U128Limbs == 8

F64MantissaBits == 53

Zeros(n) == [i \in 1..n |-> 0]

\* The value of x with exactly n limbs (zero-extended or cut: cutting is `as`).
Resize(x, n) == [i \in 1..n |-> IF i <= Len(x) THEN x[i] ELSE 0]

RECURSIVE Normalize(_)
\* x without its high zero limbs: the number itself, whatever its width.
Normalize(x) ==
    IF Len(x) = 0 \/ x[Len(x)] # 0 THEN x ELSE Normalize(SubSeq(x, 1, Len(x) - 1))

IsZero(x) == \A i \in 1..Len(x) : x[i] = 0

RECURSIVE DivStep(_, _, _)
\* Long division of limbs 1..i of x by 10000, with rem carried in from above.
DivStep(x, i, rem) ==
    IF i = 0 THEN [q |-> <<>>, r |-> rem]
    ELSE LET cur  == rem * Base + x[i]
             rest == DivStep(x, i - 1, cur % 10000)
         IN  [q |-> Append(rest.q, cur \div 10000), r |-> rest.r]

\* The four decimal digits of n < 10000.
Digits4(n) == <<n \div 1000, (n \div 100) % 10, (n \div 10) % 10, n % 10>>

\* The decimal digits of n < 10000, without leading zeros.
DigitsOf(n) ==
    IF n >= 1000 THEN Digits4(n)
    ELSE IF n >= 100 THEN <<n \div 100, (n \div 10) % 10, n % 10>>
    ELSE IF n >= 10 THEN <<n \div 10, n % 10>>
    ELSE <<n>>

RECURSIVE ItoaDigits(_)
\* itoa writes four digits for each division by 10000, the last ones first,
\* and the leading group without its zeros.
ItoaDigits(x) ==
    LET d == DivStep(x, Len(x), 0)
        q == Normalize(d.q)
    IN  IF Len(q) = 0 THEN DigitsOf(d.r) ELSE ItoaDigits(q) \o Digits4(d.r)

\* The decimal text serde_json writes for an unsigned integer (itoa): its
\* digits, most significant first, "0" for zero.
Itoa(x) == ItoaDigits(Normalize(x))

RECURSIVE MulAdd(_, _, _, _)
\* x * m + c on limbs i..Len(x), little-endian; out is the carry out of the
\* top limb (non-zero: the result does not fit x's width).
MulAdd(x, m, c, i) ==
    IF i > Len(x) THEN [v |-> <<>>, out |-> c]
    ELSE LET cur  == x[i] * m + c
             rest == MulAdd(x, m, cur \div Base, i + 1)
         IN  [v |-> <<cur % Base>> \o rest.v, out |-> rest.out]

Pow2(k) == CASE k = 0 -> 1 [] k = 1 -> 2 [] k = 2 -> 4 [] k = 3 -> 8
             [] k = 4 -> 16 [] k = 5 -> 32 [] k = 6 -> 64 [] k = 7 -> 128
             [] k = 8 -> 256 [] k = 9 -> 512 [] k = 10 -> 1024
             [] k = 11 -> 2048 [] k = 12 -> 4096 [] k = 13 -> 8192
             [] k = 14 -> 16384 [] k = 15 -> 32768

\* Bit k (0 = least significant) of x.
Bit(x, k) == (x[(k \div 16) + 1] \div Pow2(k % 16)) % 2

\* The position of the highest set bit of a non-zero x.
HighBit(x) ==
    CHOOSE k \in 0..(16 * Len(x) - 1) :
        /\ Bit(x, k) = 1
        /\ \A j \in (k + 1)..(16 * Len(x) - 1) : Bit(x, j) = 0

\* x with its bits below s cleared.
ClearLow(x, s) ==
    [i \in 1..Len(x) |->
        IF 16 * i <= s THEN 0
        ELSE IF 16 * (i - 1) >= s THEN x[i]
        ELSE (x[i] \div Pow2(s - 16 * (i - 1))) * Pow2(s - 16 * (i - 1))]

RECURSIVE AddBit(_, _, _)
\* x + 2^s, one limb wider than x when the carry runs out of the top.
AddBit(x, s, i) ==
    IF i > Len(x) THEN <<1>>
    ELSE IF 16 * i <= s THEN <<x[i]>> \o AddBit(x, s, i + 1)
    ELSE LET add == IF 16 * (i - 1) <= s THEN Pow2(s - 16 * (i - 1)) ELSE 1
             cur == x[i] + add
         IN  IF cur < Base THEN <<cur>> \o SubSeq(x, i + 1, Len(x))
             ELSE <<cur - Base>> \o AddBit(x, s, i + 1)

\* `x as f64`: the integer nearest to x that a double holds (round to nearest,
\* ties to even), as an integer.
RoundToF64(x) ==
    IF IsZero(x) THEN x
    ELSE LET h == HighBit(x) IN
         IF h < F64MantissaBits THEN x
         ELSE LET s      == h - (F64MantissaBits - 1)
                  half   == Bit(x, s - 1) = 1
                  sticky == \E j \in 0..(s - 2) : Bit(x, j) = 1
                  odd    == Bit(x, s) = 1
                  t      == ClearLow(x, s)
              IN  IF half /\ (sticky \/ odd) THEN AddBit(t, s, 1) ELSE t


\* The integer a decimal text denotes, exactly, for a text of at most 39
\* digits (the longest a u128 has), read four digits at a time.  Used by the
\* properties to read a number of the text without going through a Value.
RECURSIVE TextValueFrom(_, _, _)
TextValueFrom(digits, i, acc) ==
    IF i > Len(digits) THEN Normalize(acc)
    ELSE IF i + 3 <= Len(digits)
    THEN LET chunk == 1000 * digits[i] + 100 * digits[i + 1]
                      + 10 * digits[i + 2] + digits[i + 3]
             next  == MulAdd(acc, 10000, chunk, 1).v
         IN  TextValueFrom(digits, i + 4, next)
    ELSE LET next == MulAdd(acc, 10, digits[i], 1).v
         IN  TextValueFrom(digits, i + 1, next)

TextValue(digits) == TextValueFrom(digits, 1, Zeros(U128Limbs + 2))

(***************************************************************************)
(* The data model: Option, serde_json::Value and Map, SourceElement,       *)
(* ChangeOp, SourceChange.  An enum value is a record with one field, named *)
(* by its variant.                                                         *)
(***************************************************************************)
None == [None |-> TRUE]

Some(x) == [Some |-> x]

IsSome(o) == "Some" \in DOMAIN o

\* serde_json::Value, the variants used here.  A Number is PosInt(u64) or
\* Float(f64); the double is kept as the integer it equals.
VString(s) == [String |-> s]

VPosInt(u) == [Number |-> [PosInt |-> u]]

VFloat(f) == [Number |-> [Float |-> f]]

VArray(a) == [Array |-> a]

VObject(m) == [Object |-> m]

\* serde_json::Map<String, Value> is a BTreeMap: a function on its keys,
\* iterated in key order.  KeyOrder lists every key of the model in that order.
KeyOrder ==
    << "after", "before", "db", "endId", "field1", "field2", "field3", "id",
       "labels", "lsn", "metadata", "op", "payload", "properties",
       "reactivatorEnd_ns", "reactivatorStart_ns", "source", "startId",
       "table", "trace", "ts_ns" >>

MapKeys(m) == SelectSeq(KeyOrder, LAMBDA k : k \in DOMAIN m)

Node(id, labels, properties) ==
    [Node |-> [id |-> id, labels |-> labels, properties |-> properties]]

Relation(id, labels, properties, start_id, end_id) ==
    [Relation |-> [id |-> id, labels |-> labels, properties |-> properties,
                   start_id |-> start_id, end_id |-> end_id]]

IsNode(e) == "Node" \in DOMAIN e

ChangeOp == {"Create", "Update", "Delete"}

\* SourceChange::new
new(op, element, reactivator_start_ns, source_ns, seq, metadata) ==
    [op |-> op,
     element |-> element,
     metadata |-> metadata,
     reactivator_start_ns |-> reactivator_start_ns,
     reactivator_end_ns |-> Zeros(U128Limbs),
     source_ns |-> source_ns,
     seq |-> seq]

\* Bug: the first finalize wins, later ones are ignored.
set_reactivator_end_ns_FirstWins(self, reactivator_end_ns) ==
    IF IsZero(self.reactivator_end_ns)
    THEN [self EXCEPT !.reactivator_end_ns = reactivator_end_ns]
    ELSE self

\* Bug: finalize also overwrites the start time.
set_reactivator_end_ns_AlsoStart(self, reactivator_end_ns) ==
    [self EXCEPT !.reactivator_end_ns = reactivator_end_ns,
                 !.reactivator_start_ns = reactivator_end_ns]

\* SourceChange::set_reactivator_end_ns
set_reactivator_end_ns(self, reactivator_end_ns) ==
    [self EXCEPT !.reactivator_end_ns = reactivator_end_ns]

(***************************************************************************)
(* The process environment.  SOURCE_ID is unset, or set to an OsString     *)
(* that is valid Unicode or is not.                                        *)
(***************************************************************************)
EnvUnset == [Unset |-> TRUE]

EnvUnicode(s) == [Value |-> [Unicode |-> s]]

EnvBytes(b) == [Value |-> [Bytes |-> b]]

\* std::env::var: Err(NotPresent) when unset, Err(NotUnicode) when the value
\* is not valid Unicode, Ok(value) otherwise.
EnvVar(e) ==
    IF "Unset" \in DOMAIN e THEN [Err |-> "NotPresent"]
    ELSE IF "Bytes" \in DOMAIN e.Value THEN [Err |-> "NotUnicode"]
    ELSE [Ok |-> e.Value.Unicode]

\* Result::unwrap_or
UnwrapOr(r, default) == IF "Ok" \in DOMAIN r THEN r.Ok ELSE default

(***************************************************************************)
(* The JSON text serde_json::to_string writes, as its tree of tokens: a    *)
(* string, a number (its decimal digits), an array, or an object (its      *)
(* key/value pairs in the order written).                                  *)
(***************************************************************************)
DStr(s) == [str |-> s]

DNum(digits) == [num |-> digits]

DArr(items) == [arr |-> items]

DObj(fields) == [obj |-> fields]

\* Bug: the integer is written through a double.
SerializeUint_ViaF64(x) == DNum(Itoa(RoundToF64(x)))

\* Serialize for u64 / u128
SerializeUint(x) == DNum(Itoa(x))

\* Serialize for Value (strings and unsigned integers)
SerializeValue(v) ==
    IF "String" \in DOMAIN v THEN DStr(v.String) ELSE SerializeUint(v.Number.PosInt)

\* Serialize for Map<String, Value>
SerializeMap(m) ==
    LET ks == MapKeys(m)
    IN  DObj([i \in 1..Len(ks) |-> <<ks[i], SerializeValue(m[ks[i]])>>])

\* Serialize for Vec<String>
SerializeStrings(v) == DArr([i \in 1..Len(v) |-> DStr(v[i])])

\* Bug: the enum is internally tagged instead of untagged.
SerializeElement_Tagged(e) ==
    IF IsNode(e)
    THEN DObj(<< <<"type", DStr("Node")>>,
                 <<"id", DStr(e.Node.id)>>,
                 <<"labels", SerializeStrings(e.Node.labels)>>,
                 <<"properties", SerializeMap(e.Node.properties)>> >>)
    ELSE DObj(<< <<"type", DStr("Relation")>>,
                 <<"id", DStr(e.Relation.id)>>,
                 <<"labels", SerializeStrings(e.Relation.labels)>>,
                 <<"properties", SerializeMap(e.Relation.properties)>>,
                 <<"startId", DStr(e.Relation.start_id)>>,
                 <<"endId", DStr(e.Relation.end_id)>> >>)

\* derive(Serialize), untagged, for SourceElement
SerializeElement(e) ==
    IF IsNode(e)
    THEN DObj(<< <<"id", DStr(e.Node.id)>>,
                 <<"labels", SerializeStrings(e.Node.labels)>>,
                 <<"properties", SerializeMap(e.Node.properties)>> >>)
    ELSE DObj(<< <<"id", DStr(e.Relation.id)>>,
                 <<"labels", SerializeStrings(e.Relation.labels)>>,
                 <<"properties", SerializeMap(e.Relation.properties)>>,
                 <<"startId", DStr(e.Relation.start_id)>>,
                 <<"endId", DStr(e.Relation.end_id)>> >>)

\* Bug: the renames are missing, the variant's name is written.
SerializeOp_VariantName(op) == DStr(op)

\* derive(Serialize) for ChangeOp, with its renames
SerializeOp(op) ==
    DStr(CASE op = "Create" -> "i" [] op = "Update" -> "u" [] op = "Delete" -> "d")

\* Bug: an empty SOURCE_ID is taken as unset.
SourceDb_DefaultWhenEmpty(e) ==
    IF EnvVar(e) = [Ok |-> ""] THEN "drasi" ELSE UnwrapOr(EnvVar(e), "drasi")

\* SourceData: the `db` field
SourceDb(e) == UnwrapOr(EnvVar(e), "drasi")

\* Bug: every element is reported as a node.
SourceTable_AlwaysNode(element) == "node"

\* SourceData: the `table` field
SourceTable(element) == IF IsNode(element) THEN "node" ELSE "rel"

\* impl Serialize for SourceData.  (serde_json takes no notice of the field
\* count given to serialize_struct.)
SerializeSourceData(sc, e) ==
    DObj(<< <<"db", DStr(SourceDb(e))>>,
            <<"lsn", SerializeUint(sc.seq)>>,
            <<"table", DStr(SourceTable(sc.element))>>,
            <<"ts_ns", SerializeUint(sc.source_ns)>> >>)

\* Bug: a deleted element is written under `after` as well.
PayloadElementKey_AlwaysAfter(op) == "after"

\* Payload: the name of the element field
PayloadElementKey(op) ==
    CASE op = "Create" -> "after" [] op = "Update" -> "after" [] op = "Delete" -> "before"

\* impl Serialize for Payload
SerializePayload(sc, e) ==
    DObj(<< <<PayloadElementKey(sc.op), SerializeElement(sc.element)>>,
            <<"source", SerializeSourceData(sc, e)>> >>)

\* Bug: an empty metadata map is skipped like a missing one.
SerializeMetadata_SkipEmpty(metadata) ==
    IF IsSome(metadata) /\ DOMAIN metadata.Some # {}
    THEN << <<"metadata", SerializeMap(metadata.Some)>> >>
    ELSE <<>>

\* SourceChange: the optional `metadata` field
SerializeMetadata(metadata) ==
    IF IsSome(metadata) THEN << <<"metadata", SerializeMap(metadata.Some)>> >> ELSE <<>>

\* impl Serialize for SourceChange
SerializeSourceChange(sc, e) ==
    DObj(<< <<"op", SerializeOp(sc.op)>>,
            <<"payload", SerializePayload(sc, e)>>,
            <<"reactivatorStart_ns", SerializeUint(sc.reactivator_start_ns)>>,
            <<"reactivatorEnd_ns", SerializeUint(sc.reactivator_end_ns)>> >>
         \o SerializeMetadata(sc.metadata))

(***************************************************************************)
(* Reading the text back.                                                  *)
(***************************************************************************)
\* The keys of an object of the text.
DocKeys(d) == {d.obj[i][1] : i \in 1..Len(d.obj)}

\* The value written under key k (the object holds k).
DocField(d, k) == d.obj[CHOOSE i \in 1..Len(d.obj) : d.obj[i][1] = k][2]

\* 10^e * x on limbs (x wide enough to hold it).
RECURSIVE MulPow10(_, _)
MulPow10(x, e) ==
    IF e = 0 THEN x
    ELSE IF e >= 4 THEN MulPow10(MulAdd(x, 10000, 0, 1).v, e - 4)
    ELSE MulPow10(MulAdd(x, 10, 0, 1).v, e - 1)

\* Deserializer::f64_from_parts for a positive exponent:
\* (significand as f64) * 10^exponent, in double arithmetic.
F64FromParts(significand, exponent) ==
    RoundToF64(MulPow10(Resize(RoundToF64(significand), U128Limbs + 2), exponent))

\* Deserializer::parse_integer: the digits are kept in a u64 while they fit;
\* at the digit that overflows it, parse_long_integer counts the digits left
\* and the number becomes a double.
RECURSIVE ParseInteger(_, _, _)
ParseInteger(digits, i, significand) ==
    IF i > Len(digits) THEN [PosInt |-> significand]
    ELSE LET next == MulAdd(significand, 10, digits[i], 1)
         IN  IF next.out # 0
             THEN [Float |-> F64FromParts(significand, Len(digits) - i + 1)]
             ELSE ParseInteger(digits, i + 1, next.v)

ParseNumber(digits) == ParseInteger(digits, 1, Zeros(U64Limbs))

\* serde_json::from_str::<Value>
RECURSIVE FromStr(_)
FromStr(d) ==
    IF "str" \in DOMAIN d THEN VString(d.str)
    ELSE IF "num" \in DOMAIN d THEN [Number |-> ParseNumber(d.num)]
    ELSE IF "arr" \in DOMAIN d THEN VArray([i \in 1..Len(d.arr) |-> FromStr(d.arr[i])])
    ELSE VObject([k \in DocKeys(d) |->
                    FromStr(d.obj[CHOOSE i \in 1..Len(d.obj) :
                                    /\ d.obj[i][1] = k
                                    /\ \A j \in (i + 1)..Len(d.obj) : d.obj[j][1] # k][2])])

\* The integer a Value::Number holds.
NumberValue(v) ==
    IF "PosInt" \in DOMAIN v.Number THEN Normalize(v.Number.PosInt)
    ELSE Normalize(v.Number.Float)

(***************************************************************************)
(* Inputs.                                                                 *)
(***************************************************************************)
\* The records of a run, each driven by its own thread.
Recs == {"r1", "r2"}

\* The record of the single-threaded runs.
MainRecs == {"r1"}

\* How many times one record is finalized.
MaxFinalize == 2

\* How many times one record is encoded between two changes of its input.
MaxEncodes == 2

Properties ==
    [field1 |-> VString("foo"), field2 |-> VString("bar"),
     field3 |-> VPosInt(<<4, 0, 0, 0>>)]

Elements ==
    { Node("1", <<"Person">>, Properties),
      Relation("7", <<"KNOWS", "KNOWS">>, Properties, "2", "3") }

\* No metadata, an empty map, a map with one entry.
Metadatas == { None, Some(<<>>), Some([trace |-> VString("t")]) }

\* 1234567890000000000, 1234500000123456789 and 1234567890001234567
TestStart == <<46080, 30349, 4340, 4386, 0, 0, 0, 0>>

TestSource == <<3349, 40596, 54069, 4385, 0, 0, 0, 0>>

TestEnd == <<35463, 30368, 4340, 4386, 0, 0, 0, 0>>

\* <<reactivator_start_ns, source_ns, seq>>: the values of the tests; the
\* largest u64 and 2^53 + 1; 2^64 + 1 and the largest u128.
Timings ==
    { <<TestStart, TestSource, <<1, 0, 0, 0>> >>,
      << <<65535, 65535, 65535, 65535, 0, 0, 0, 0>>, <<1, 0, 0, 32, 0, 0, 0, 0>>,
         <<65535, 65535, 65535, 65535>> >>,
      << <<1, 0, 0, 0, 1, 0, 0, 0>>,
         <<65535, 65535, 65535, 65535, 65535, 65535, 65535, 65535>>,
         <<0, 0, 0, 0>> >> }

\* The arguments of set_reactivator_end_ns: the tests' value, the largest u128.
EndValues ==
    { TestEnd, <<65535, 65535, 65535, 65535, 65535, 65535, 65535, 65535>> }

CtorArgs ==
    { [op |-> o, element |-> e, reactivator_start_ns |-> t[1], source_ns |-> t[2],
       seq |-> t[3], metadata |-> m] :
        o \in ChangeOp, e \in Elements, t \in Timings, m \in Metadatas }

\* The arguments of the concurrent runs.
ConcArgs ==
    { a \in CtorArgs :
        \/ a.op = "Create" /\ IsNode(a.element) /\ a.metadata = None
                           /\ a.reactivator_start_ns = TestStart
        \/ a.op = "Delete" /\ ~IsNode(a.element) /\ IsSome(a.metadata)
                           /\ a.metadata.Some # <<>>
                           /\ a.reactivator_start_ns # TestStart
                           /\ a.seq = <<0, 0, 0, 0>> }

\* The states of SOURCE_ID.
EnvStates == { EnvUnset, EnvUnicode(""), EnvUnicode("src1"), EnvBytes(<<255>>) }

(***************************************************************************)
(* State.                                                                  *)
(***************************************************************************)
VARIABLES
    env,        \* SOURCE_ID in the process environment
    rec,        \* rec[r]: Option<SourceChange>, the record r once constructed
    out,        \* out[r]: Option of the text of the last to_string(&rec[r])
    args,       \* args[r]: Option of the arguments r was constructed with
    nfin,       \* nfin[r]: the number of set_reactivator_end_ns calls on r
    lastFin,    \* lastFin[r]: Option of the argument of the last such call
    encodes     \* encodes[r]: the encodes of r since its last finalize and
                \* the last change of SOURCE_ID

vars == <<env, rec, out, args, nfin, lastFin, encodes>>

Init ==
    /\ env \in EnvStates
    /\ rec = [r \in Recs |-> None]
    /\ out = [r \in Recs |-> None]
    /\ args = [r \in Recs |-> None]
    /\ nfin = [r \in Recs |-> 0]
    /\ lastFin = [r \in Recs |-> None]
    /\ encodes = [r \in Recs |-> 0]

\* let mut change = SourceChange::new(..), its arguments drawn from S
Construct(r, S) ==
    /\ rec[r] = None
    /\ \E a \in S :
        /\ rec' = [rec EXCEPT ![r] =
                      Some(new(a.op, a.element, a.reactivator_start_ns,
                               a.source_ns, a.seq, a.metadata))]
        /\ args' = [args EXCEPT ![r] = Some(a)]
    /\ UNCHANGED <<env, out, nfin, lastFin, encodes>>

\* Bug: the end time is one value shared by every record.
Finalize_Shared(r) ==
    /\ IsSome(rec[r])
    /\ nfin[r] < MaxFinalize
    /\ \E v \in EndValues :
        /\ rec' = [q \in Recs |->
                      IF IsSome(rec[q]) THEN Some(set_reactivator_end_ns(rec[q].Some, v))
                      ELSE rec[q]]
        /\ lastFin' = [lastFin EXCEPT ![r] = Some(v)]
    /\ nfin' = [nfin EXCEPT ![r] = nfin[r] + 1]
    /\ encodes' = [encodes EXCEPT ![r] = 0]
    /\ UNCHANGED <<env, out, args>>

\* change.set_reactivator_end_ns(v)
Finalize(r) ==
    /\ IsSome(rec[r])
    /\ nfin[r] < MaxFinalize
    /\ \E v \in EndValues :
        /\ rec' = [rec EXCEPT ![r] = Some(set_reactivator_end_ns(rec[r].Some, v))]
        /\ lastFin' = [lastFin EXCEPT ![r] = Some(v)]
    /\ nfin' = [nfin EXCEPT ![r] = nfin[r] + 1]
    /\ encodes' = [encodes EXCEPT ![r] = 0]
    /\ UNCHANGED <<env, out, args>>

\* serde_json::to_string(&change).unwrap()
Encode(r) ==
    /\ IsSome(rec[r])
    /\ encodes[r] < MaxEncodes
    /\ out' = [out EXCEPT ![r] = Some(SerializeSourceChange(rec[r].Some, env))]
    /\ encodes' = [encodes EXCEPT ![r] = encodes[r] + 1]
    /\ UNCHANGED <<env, rec, args, nfin, lastFin>>

\* SOURCE_ID is set to another value, or removed, outside this code.
SetSourceId ==
    /\ \E e \in EnvStates \ {EnvUnset} : e # env /\ env' = e
    /\ encodes' = [r \in Recs |-> 0]
    /\ UNCHANGED <<rec, out, args, nfin, lastFin>>

RemoveSourceId ==
    /\ env # EnvUnset
    /\ env' = EnvUnset
    /\ encodes' = [r \in Recs |-> 0]
    /\ UNCHANGED <<rec, out, args, nfin, lastFin>>

Next ==
    \/ \E r \in MainRecs : Construct(r, CtorArgs)
    \/ \E r \in MainRecs : Finalize(r)
    \/ \E r \in MainRecs : Encode(r)
    \/ SetSourceId
    \/ RemoveSourceId

Spec == Init /\ [][Next]_vars

\* Several threads, each with its own record; SOURCE_ID is left alone.
NextConc ==
    \/ \E r \in Recs : Construct(r, ConcArgs)
    \/ \E r \in Recs : Finalize(r)
    \/ \E r \in Recs : Encode(r)

SpecConc == Init /\ [][NextConc]_vars

(***************************************************************************)
(* Properties.  What a record was built from is read from args and         *)
(* lastFin, what was written from out.                                     *)
(***************************************************************************)
Encoded(r) == IsSome(out[r])

\* out[r] was written after the last finalize of r and the last change of
\* SOURCE_ID.
Current(r) == Encoded(r) /\ encodes[r] > 0

Doc(r) == out[r].Some

PayloadOf(r) == DocField(Doc(r), "payload")

SourceOf(r) == DocField(PayloadOf(r), "source")

ElementKeyOf(r) == IF args[r].Some.op = "Delete" THEN "before" ELSE "after"

ElementOf(r) == DocField(PayloadOf(r), ElementKeyOf(r))

\* How many pairs of object d are written under key k.
Count(d, k) == Cardinality({i \in 1..Len(d.obj) : d.obj[i][1] = k})

\* The element the record was built from, whichever its variant.
ElementArg(r) ==
    IF IsNode(args[r].Some.element) THEN args[r].Some.element.Node
    ELSE args[r].Some.element.Relation

\* The capture-end time the record was last finalized with, 0 if never.
EndArg(r) == IF IsSome(lastFin[r]) THEN lastFin[r].Some ELSE Zeros(U128Limbs)

FitsU64(x) == \A i \in (U64Limbs + 1)..Len(x) : x[i] = 0

\* C1: the payload holds the element under exactly one of `after` and
\* `before`: `after` for Create and Update, `before` for Delete, once, and
\* the other name is no key of the payload; for nodes and relationships alike.
C1_PayloadElementKey ==
    \A r \in Recs : Encoded(r) =>
        LET keys  == DocKeys(PayloadOf(r))
            name  == IF args[r].Some.op \in {"Create", "Update"} THEN "after" ELSE "before"
            other == IF name = "after" THEN "before" ELSE "after"
        IN  /\ name \in keys
            /\ other \notin keys
            /\ Count(PayloadOf(r), name) = 1
            /\ keys = {name, "source"}
            /\ DocField(DocField(PayloadOf(r), name), "id") = DStr(ElementArg(r).id)

C1_Witness ==
    \E r \in Recs :
        /\ Encoded(r)
        /\ args[r].Some.op = "Delete"
        /\ ~IsNode(args[r].Some.element)
        /\ IsSome(args[r].Some.metadata)
        /\ "before" \in DocKeys(PayloadOf(r))

\* C2: an encode made after the last finalize writes reactivatorEnd_ns as the
\* argument of that finalize, and as 0 when the record was never finalized;
\* the whole text is the one of a record finalized with that value alone.
C2_LastFinalizeWins ==
    \A r \in Recs : Current(r) =>
        /\ TextValue(DocField(Doc(r), "reactivatorEnd_ns").num) = Normalize(EndArg(r))
        /\ nfin[r] = 0 => DocField(Doc(r), "reactivatorEnd_ns") = DNum(<<0>>)
        /\ Doc(r) = SerializeSourceChange(
                        [op |-> args[r].Some.op,
                         element |-> args[r].Some.element,
                         metadata |-> args[r].Some.metadata,
                         reactivator_start_ns |-> args[r].Some.reactivator_start_ns,
                         reactivator_end_ns |-> EndArg(r),
                         source_ns |-> args[r].Some.source_ns,
                         seq |-> args[r].Some.seq], env)

C2_Witness ==
    \E r \in Recs :
        /\ Current(r)
        /\ nfin[r] >= 2
        /\ lastFin[r] = Some(TestEnd)
        /\ DocField(Doc(r), "reactivatorEnd_ns") =
               DNum(<<1, 2, 3, 4, 5, 6, 7, 8, 9, 0, 0, 0, 1, 2, 3, 4, 5, 6, 7>>)

\* C3 as claimed: each encode writes source.db as the value SOURCE_ID has at
\* that encode whenever it is set, and as "drasi" when it is unset.
C3_DbIsConfiguredWheneverSet ==
    \A r \in Recs : Current(r) =>
        LET db == DocField(SourceOf(r), "db")
        IN  IF env = EnvUnset THEN db = DStr("drasi")
            ELSE /\ "Unicode" \in DOMAIN env.Value
                 /\ db = DStr(env.Value.Unicode)

\* C3, amended: each encode writes source.db as the value SOURCE_ID has at
\* that encode when it is set to valid Unicode (the empty string included),
\* and as "drasi" when it is unset or set to a value that is not valid
\* Unicode; never as the value of an earlier encode.
C3_DbIsCurrentUnicodeOrDefault ==
    \A r \in Recs : Current(r) =>
        LET db == DocField(SourceOf(r), "db")
        IN  IF env # EnvUnset /\ "Unicode" \in DOMAIN env.Value
            THEN db = DStr(env.Value.Unicode)
            ELSE db = DStr("drasi")

C3_Witness ==
    \E r \in Recs :
        /\ Current(r)
        /\ env = EnvUnicode("")
        /\ DocField(SourceOf(r), "db") = DStr("")

\* C4: the envelope has a `metadata` key exactly when the record was built
\* with Some(metadata), an empty map included; read back, it is the map
\* supplied; however often the record was finalized.
C4_MetadataKey ==
    \A r \in Recs : Encoded(r) =>
        /\ "metadata" \in DocKeys(Doc(r)) <=> IsSome(args[r].Some.metadata)
        /\ IsSome(args[r].Some.metadata) =>
             /\ Count(Doc(r), "metadata") = 1
             /\ FromStr(DocField(Doc(r), "metadata")) = VObject(args[r].Some.metadata.Some)

C4_Witness ==
    \E r \in Recs :
        /\ Encoded(r)
        /\ nfin[r] > 0
        /\ args[r].Some.metadata = Some(<<>>)
        /\ DocField(Doc(r), "metadata") = DObj(<<>>)

\* What from_str::<Value> gives back of the text of r: the Value at a path of
\* the document is the Value of the text at that path.
ReadsBackOp(r) ==
    FromStr(DocField(Doc(r), "op")) =
        VString(CASE args[r].Some.op = "Create" -> "i"
                  [] args[r].Some.op = "Update" -> "u"
                  [] args[r].Some.op = "Delete" -> "d")

ReadsBackId(r) ==
    /\ ElementKeyOf(r) \in DocKeys(PayloadOf(r))
    /\ FromStr(DocField(ElementOf(r), "id")) = VString(ElementArg(r).id)

\* The number written under key k of object d reads back as the integer x.
ReadsBack(d, k, x) ==
    LET v == FromStr(DocField(d, k))
    IN  "Number" \in DOMAIN v /\ NumberValue(v) = Normalize(x)

\* C5 as claimed: op, the element id, lsn, ts_ns, reactivatorStart_ns and
\* reactivatorEnd_ns read back from the text as a Value are the values the
\* record was built and finalized with, over the whole u64 and u128 ranges.
C5_RoundTripAllU128 ==
    \A r \in Recs : Current(r) =>
        /\ ReadsBackOp(r)
        /\ ReadsBackId(r)
        /\ ReadsBack(SourceOf(r), "lsn", args[r].Some.seq)
        /\ ReadsBack(SourceOf(r), "ts_ns", args[r].Some.source_ns)
        /\ ReadsBack(Doc(r), "reactivatorStart_ns", args[r].Some.reactivator_start_ns)
        /\ ReadsBack(Doc(r), "reactivatorEnd_ns", EndArg(r))

\* C5, amended: op, the element id and lsn read back as built, for every u64
\* sequence number; a timestamp reads back as built when it is at most
\* 2^64 - 1; the text itself holds every timestamp's exact decimal digits.
C5_RoundTripU64 ==
    \A r \in Recs : Current(r) =>
        /\ ReadsBackOp(r)
        /\ ReadsBackId(r)
        /\ ReadsBack(SourceOf(r), "lsn", args[r].Some.seq)
        /\ FitsU64(args[r].Some.source_ns) =>
               ReadsBack(SourceOf(r), "ts_ns", args[r].Some.source_ns)
        /\ FitsU64(args[r].Some.reactivator_start_ns) =>
               ReadsBack(Doc(r), "reactivatorStart_ns", args[r].Some.reactivator_start_ns)
        /\ FitsU64(EndArg(r)) => ReadsBack(Doc(r), "reactivatorEnd_ns", EndArg(r))
        /\ TextValue(DocField(SourceOf(r), "ts_ns").num) = Normalize(args[r].Some.source_ns)
        /\ TextValue(DocField(Doc(r), "reactivatorStart_ns").num)
               = Normalize(args[r].Some.reactivator_start_ns)
        /\ TextValue(DocField(Doc(r), "reactivatorEnd_ns").num) = Normalize(EndArg(r))

\* A record whose start time and sequence number are 2^64 - 1 and whose
\* source time is 2^53 + 1, finalized and encoded.
C5_Witness ==
    \E r \in Recs :
        /\ Current(r)
        /\ nfin[r] > 0
        /\ args[r].Some.seq = <<65535, 65535, 65535, 65535>>
        /\ FitsU64(EndArg(r))
        /\ FromStr(DocField(Doc(r), "reactivatorStart_ns")) = VPosInt(<<65535, 65535, 65535, 65535>>)
        /\ FromStr(DocField(SourceOf(r), "ts_ns")) = VPosInt(<<1, 0, 0, 32>>)

\* C6: source.table is "node" for a Node and "rel" for a Relationship,
\* whatever the operation, the timestamps, the sequence number and metadata.
C6_TableByElementKind ==
    \A r \in Recs : Encoded(r) =>
        /\ IsNode(args[r].Some.element) => DocField(SourceOf(r), "table") = DStr("node")
        /\ ~IsNode(args[r].Some.element) => DocField(SourceOf(r), "table") = DStr("rel")
        /\ Count(SourceOf(r), "table") = 1

C6_Witness ==
    \E r \in Recs :
        /\ Encoded(r)
        /\ args[r].Some.op = "Delete"
        /\ ~IsNode(args[r].Some.element)
        /\ DocField(SourceOf(r), "table") = DStr("rel")

\* C7: the element is written with exactly the keys id, labels, properties
\* for a Node and id, labels, properties, startId, endId for a Relationship,
\* each once, with no discriminator; each key holds the element's value; and
\* startId and endId are there exactly when source.table is "rel".
C7_ElementKeys ==
    \A r \in Recs : Encoded(r) =>
        LET e == ElementOf(r)
            a == ElementArg(r)
            v == FromStr(e).Object
        IN  /\ DocKeys(e) = IF IsNode(args[r].Some.element)
                            THEN {"id", "labels", "properties"}
                            ELSE {"id", "labels", "properties", "startId", "endId"}
            /\ Len(e.obj) = Cardinality(DocKeys(e))
            /\ v.id = VString(a.id)
            /\ v.labels = VArray([i \in 1..Len(a.labels) |-> VString(a.labels[i])])
            /\ v.properties = VObject(a.properties)
            /\ ~IsNode(args[r].Some.element) =>
                   v.startId = VString(a.start_id) /\ v.endId = VString(a.end_id)
            /\ {"startId", "endId"} \subseteq DocKeys(e)
                   <=> DocField(SourceOf(r), "table") = DStr("rel")
            /\ {"startId", "endId"} \cap DocKeys(e) = {}
                   <=> DocField(SourceOf(r), "table") = DStr("node")

C7_Witness ==
    \E r \in Recs :
        /\ Encoded(r)
        /\ ~IsNode(args[r].Some.element)
        /\ DocField(ElementOf(r), "startId") = DStr("2")
        /\ DocField(ElementOf(r), "endId") = DStr("3")

\* C8: op is written as "i" for Create, "u" for Update and "d" for Delete,
\* in every encode of the record, whatever its element and however often it
\* was finalized.
C8_OpTag ==
    \A r \in Recs : Encoded(r) =>
        /\ args[r].Some.op = "Create" => DocField(Doc(r), "op") = DStr("i")
        /\ args[r].Some.op = "Update" => DocField(Doc(r), "op") = DStr("u")
        /\ args[r].Some.op = "Delete" => DocField(Doc(r), "op") = DStr("d")

C8_Witness ==
    \E r \in Recs :
        /\ Encoded(r)
        /\ encodes[r] = 2
        /\ nfin[r] = 2
        /\ args[r].Some.op = "Update"
        /\ DocField(Doc(r), "op") = DStr("u")

\* The text of record r had its construct, finalize and encode steps run alone.
Alone(r) ==
    SerializeSourceChange(
        [op |-> args[r].Some.op,
         element |-> args[r].Some.element,
         metadata |-> args[r].Some.metadata,
         reactivator_start_ns |-> args[r].Some.reactivator_start_ns,
         reactivator_end_ns |-> EndArg(r),
         source_ns |-> args[r].Some.source_ns,
         seq |-> args[r].Some.seq], env)

\* C9: with records built, finalized and encoded by several threads in any
\* order and SOURCE_ID left alone, the text of each record is the one its
\* own steps give alone; a step changes the fields and the text of one
\* record at most, and none changes SOURCE_ID.
C9_RecordsAreIndependent ==
    /\ [](\A r \in Recs : Current(r) => Doc(r) = Alone(r))
    /\ [][/\ env' = env
          /\ \A r, q \in Recs :
                (rec'[r] # rec[r] \/ out'[r] # out[r]) /\ q # r
                    => rec'[q] = rec[q] /\ out'[q] = out[q]]_vars

C9_Witness ==
    /\ \A r \in Recs : Current(r) /\ nfin[r] > 0
    /\ lastFin["r1"] # lastFin["r2"]
    /\ args["r1"] # args["r2"]
    /\ Doc("r1") # Doc("r2")

\* C10: a record's operation, element, metadata, start time, source time and
\* sequence number stay the constructor's arguments; a finalize changes the
\* end time only; an encode changes no field; and an encode that follows
\* another with no finalize and no change of SOURCE_ID between them writes
\* the same text.
C10_FieldsAreImmutable ==
    /\ [](\A r \in Recs : IsSome(rec[r]) =>
            /\ rec[r].Some.op = args[r].Some.op
            /\ rec[r].Some.element = args[r].Some.element
            /\ rec[r].Some.metadata = args[r].Some.metadata
            /\ rec[r].Some.reactivator_start_ns = args[r].Some.reactivator_start_ns
            /\ rec[r].Some.source_ns = args[r].Some.source_ns
            /\ rec[r].Some.seq = args[r].Some.seq)
    /\ [][\A r \in Recs :
            /\ IsSome(rec[r]) =>
                 /\ IsSome(rec'[r])
                 /\ [rec'[r].Some EXCEPT !.reactivator_end_ns = rec[r].Some.reactivator_end_ns]
                        = rec[r].Some
                 /\ nfin'[r] = nfin[r] => rec'[r] = rec[r]
            /\ encodes[r] > 0 /\ encodes'[r] = encodes[r] + 1 => out'[r] = out[r]]_vars

C10_Witness ==
    \E r \in Recs :
        /\ encodes[r] = 2
        /\ nfin[r] = 2
        /\ rec[r].Some.reactivator_end_ns # Zeros(U128Limbs)
        /\ rec[r].Some.reactivator_start_ns = args[r].Some.reactivator_start_ns

=============================================================================
